---- MODULE Spec2Model ----
(***************************************************************************)
(* Model of src/lead_app.py: the Overpass query builder (fetch_osm_nodes), *)
(* the lead processor (process_leads) with its helpers, and the part of    *)
(* the Streamlit script that feeds them (lines 162-200).                   *)
(*                                                                         *)
(* Text is modelled as a sequence of one-character strings, so that        *)
(* lower(), strip(), `in` and re.sub act on characters.  Time is counted   *)
(* in units of 1/UnitsPerDay day.                                          *)
(***************************************************************************)
EXTENDS Integers, Sequences, FiniteSets, TLC

VARIABLES
  pc,            \* where the script of lines 162-210 stands
  now,           \* the instant datetime.now returns at line 116
  geo,           \* st.session_state['geo']
  lookback,      \* the "Look back (days)" slider
  blacklist,     \* the exclusion list handed to process_leads
  tags_to_query, \* the (key, pattern) pairs of the niche text
  query,         \* the clauses of the last Overpass query
  nodes,         \* the elements the last fetch returned
  leads,         \* the list the last process_leads returned
  enrich_calls,  \* the calls of enrich_phone it made, in order
  raised,        \* whether an exception left it
  prev           \* the list returned for the same arguments one run earlier

vars == <<pc, now, geo, lookback, blacklist, tags_to_query, query, nodes,
          leads, enrich_calls, raised, prev>>

(* ------------------------------ bounds --------------------------------- *)
\* longest batch of nodes a fetch returns
MaxBatch == 2
\* largest value of the "Look back (days)" slider that is explored
MaxLookback == 2
\* resolution of time: units per day
UnitsPerDay == 2

(* ------------------------------ config --------------------------------- *)
MAX_LOOKBACK == 365

TLDs == <<".com", ".net", ".org", ".biz", ".us">>

(* ------------------------------- text ---------------------------------- *)
\* Python's None for string-valued dictionary lookups
None == "None"

\* str.lower() on one character
LowerChar(c) == CASE c = "A" -> "a"
                  [] c = "B" -> "b"
                  [] c = "C" -> "c"
                  [] OTHER -> c

\* str.lower()
Lower(s) == [k \in 1..Len(s) |-> LowerChar(s[k])]

\* the `in` operator on strings: needle occurs in hay as a substring
Contains(hay, needle) ==
  \E k \in 0..(Len(hay) - Len(needle)) :
     SubSeq(hay, k + 1, k + Len(needle)) = needle

IsSpace(c) == c = " "

RECURSIVE LStrip(_)
LStrip(s) == IF s # <<>> /\ IsSpace(Head(s)) THEN LStrip(Tail(s)) ELSE s

RECURSIVE RStrip(_)
RStrip(s) == IF s # <<>> /\ IsSpace(s[Len(s)])
             THEN RStrip(SubSeq(s, 1, Len(s) - 1)) ELSE s

\* str.strip()
Strip(s) == RStrip(LStrip(s))

\* the character class [a-z0-9] of slugify's regular expression
IsSlugChar(c) == c \in {"a", "b", "c", "0", "1"}

\* re.sub(r'[^a-z0-9]+', '-', s): every maximal run of other characters
\* becomes one hyphen
RECURSIVE SubRuns(_, _)
SubRuns(s, inRun) ==
  IF s = <<>> THEN <<>>
  ELSE IF IsSlugChar(Head(s)) THEN <<Head(s)>> \o SubRuns(Tail(s), FALSE)
  ELSE IF inRun THEN SubRuns(Tail(s), TRUE)
  ELSE <<"-">> \o SubRuns(Tail(s), TRUE)

RECURSIVE LStripHyphen(_)
LStripHyphen(s) ==
  IF s # <<>> /\ Head(s) = "-" THEN LStripHyphen(Tail(s)) ELSE s

RECURSIVE RStripHyphen(_)
RStripHyphen(s) ==
  IF s # <<>> /\ s[Len(s)] = "-"
  THEN RStripHyphen(SubSeq(s, 1, Len(s) - 1)) ELSE s

slugify(name) == RStripHyphen(LStripHyphen(SubRuns(Lower(name), FALSE)))

(* --------------------------- dictionaries ------------------------------ *)
\* the empty dict {}
EmptyDict == <<>>

\* dict.get(k, default)
Get(d, k, default) == IF k \in DOMAIN d THEN d[k] ELSE default

\* truth value of a string-valued lookup: None and '' are false
Truthy(v) == v \notin {None, ""}

\* Python's `a or b` on string-valued lookups
Or(a, b) == IF Truthy(a) THEN a ELSE b

(* ---------------------------- environment ------------------------------ *)
\* Nominatim: the ZIP codes it knows, each with (lat, lon, bbox);
\* bbox is (south, north, west, east)
ZipCodes == {"92101", "00000"}

Nominatim(zip_code) ==
  IF zip_code = "92101" THEN <<[lat |-> 32, lon |-> -117, bbox |-> <<32, 33, -118, -117>>]>>
  ELSE <<>>

\* YellowPages: the (name, city) searches whose result page holds a phone
\* number; every other search has none
YellowPages == { <<<<"A", "b">>, "Reno">>, <<<<"b", "c">>, "Reno">> }

\* the domains that resolve and answer HEAD with a status below 400
LiveDomains == { <<<<"c">>, ".net">>, <<<<"b", "-", "c">>, ".us">> }

\* geocode_zip: None when Nominatim has no result, else (lat, lon, bbox)
NoGeo == [found |-> FALSE, lat |-> 0, lon |-> 0, bbox |-> <<0, 0, 0, 0>>]

geocode_zip(zip_code) ==
  LET data == Nominatim(zip_code)
  IN  IF data = <<>> THEN NoGeo
      ELSE [found |-> TRUE, lat |-> data[1].lat, lon |-> data[1].lon,
            bbox |-> data[1].bbox]

\* enrich_phone: the first phone-shaped token of the result page, or None
enrich_phone(name, city) ==
  IF <<name, city>> \in YellowPages THEN "(775) 555-0100" ELSE None

\* has_live_website: some TLD, tried in order, gives a live domain
has_live_website(name) ==
  LET base == slugify(name)
  IN  \E k \in 1..Len(TLDs) : <<base, TLDs[k]>> \in LiveDomains

(* --------------------------- query builder ----------------------------- *)
\* the pattern slot of a clause that has no pattern, such as node(...)[shop];
NoPattern == "<none>"

\* area = f"({south},{west},{north},{east})" of a bbox (south, north, west, east)
Area(bbox) == <<bbox[1], bbox[3], bbox[2], bbox[4]>>

\* the clause node{area}[{key}~"{pattern}"];
FilterClause(area, pair) == [area |-> area, key |-> pair[1], pattern |-> pair[2]]

\* the clause node{area}[{key}];
CatchAllClause(area, key) == [area |-> area, key |-> key, pattern |-> NoPattern]

CatchAllKeys == <<"shop", "amenity", "office", "leisure">>

\* the catch-all clauses only when there is no filter
ClausesFallbackOnly(bbox, tags) ==
  LET area == Area(bbox)
  IN  IF tags # <<>>
      THEN [k \in 1..Len(tags) |-> FilterClause(area, tags[k])]
      ELSE [k \in 1..Len(CatchAllKeys) |-> CatchAllClause(area, CatchAllKeys[k])]

\* the clauses of the query of fetch_osm_nodes, in the order they are joined
Clauses(bbox, tags) ==
  LET area == Area(bbox)
  IN  [k \in 1..Len(tags) |-> FilterClause(area, tags[k])]
      \o [k \in 1..Len(CatchAllKeys) |-> CatchAllClause(area, CatchAllKeys[k])]

\* niche_text lines of the form key=value become (key, value) pairs; a line
\* is modelled as [eq |-> has '=', key |-> text before it, val |-> text after]
RECURSIVE NichePairs(_)
NichePairs(lines) ==
  IF lines = <<>> THEN <<>>
  ELSE (IF Head(lines).eq THEN <<<<Head(lines).key, Head(lines).val>>>> ELSE <<>>)
       \o NichePairs(Tail(lines))

\* blacklist = [b.strip().lower() for b in b_text.splitlines() if b.strip()]
RECURSIVE Blacklist(_)
Blacklist(lines) ==
  IF lines = <<>> THEN <<>>
  ELSE (IF Strip(Head(lines)) # <<>> THEN <<Lower(Strip(Head(lines)))>> ELSE <<>>)
       \o Blacklist(Tail(lines))

(* --------------------------- lead processor ---------------------------- *)
AddressKeys == <<"addr:housenumber", "addr:street", "addr:city",
                 "addr:state", "addr:postcode">>

\* assemble_address: the non-empty parts, in order, joined by ", "
\* (modelled as the sequence of the parts that are joined)
assemble_address(tags) ==
  LET parts == [k \in 1..Len(AddressKeys) |-> Get(tags, AddressKeys[k], "")]
  IN  SelectSeq(parts, LAMBDA p : p # "")

\* timedelta.days of a difference of delta time units: the floor of the
\* number of days, also for a negative difference
TimedeltaDays(delta) ==
  IF delta >= 0 THEN delta \div UnitsPerDay
  ELSE -((-delta + UnitsPerDay - 1) \div UnitsPerDay)

\* a timestamp is [kind, t]: kind "text" is text that fromisoformat rejects,
\* "naive" an instant without UTC offset, "aware" an instant with one
\* lines 124-129: the try block; FALSE when it raises (ts is None, the text
\* does not parse, or a naive instant is subtracted from the aware `now`)
TryOk(n) ==
  /\ "timestamp" \in DOMAIN n
  /\ n["timestamp"].kind = "aware"

\* the try block without its handler: the exception leaves process_leads
ExceptClauseMissing == "raise"

\* lines 128-129: `except: continue` ends the iteration, not the function
ExceptClause == "skip"

\* lines 126-127: days = (now - dt).days
DaysOf(n, t_now) == TimedeltaDays(t_now - n["timestamp"].t)

\* the window test, one day too generous
TooOldOffByOne(days, lookback_days) == days > lookback_days + 1

\* line 130: the record is older than the window
TooOld(days, lookback_days) == days > lookback_days

\* round() of the non-negative fraction num/den: to nearest, ties to even
Round(num, den) ==
  LET q == num \div den
      r == num % den
  IN  IF 2 * r < den THEN q
      ELSE IF 2 * r > den THEN q + 1
      ELSE IF q % 2 = 0 THEN q ELSE q + 1

\* the address score as the fraction of the five sub-fields present
AddressScoreFraction(address) == Len(address) * 6

\* line 146: address_score
AddressScore(address) == (IF address # <<>> THEN 1 ELSE 0) * 30

\* the score without min(100, ...)
ScoreUnclamped(days, lookback_days, address) ==
  Round((lookback_days - days) * 70 + AddressScore(address) * lookback_days,
        lookback_days)

\* lines 145-147: round(min(100, freshness_score + address_score)), with
\* freshness_score = (lookback_days - days) / lookback_days * 70 kept as the
\* fraction ((lookback_days - days) * 70) / lookback_days.  The float
\* computation of the program gives the same integer for the windows
\* explored here (it differs from the exact fraction only on ties that the
\* floats miss, the first at lookback_days = 140).
Score(days, lookback_days, address) ==
  LET num == (lookback_days - days) * 70 + AddressScore(address) * lookback_days
  IN  IF num >= 100 * lookback_days THEN 100 ELSE Round(num, lookback_days)

\* the name compared as it is written
BlacklistedCaseSensitive(name, bl) ==
  \E k \in 1..Len(bl) : Contains(name, bl[k])

\* line 121: any(bl in name.lower() for bl in blacklist)
Blacklisted(name, bl) ==
  \E k \in 1..Len(bl) : Contains(Lower(name), bl[k])

\* line 139: phone = tags.get('phone') or tags.get('contact:phone')
TagPhone(tags) == Or(Get(tags, "phone", None), Get(tags, "contact:phone", None))

\* lines 140-141: the enricher is called when there is no phone tag and
\* the city is not empty
CallsEnricher(tags) == ~Truthy(TagPhone(tags)) /\ Truthy(Get(tags, "addr:city", ""))

\* lines 139-141: the contact after the optional enrichment
Phone(tags) ==
  IF CallsEnricher(tags)
  THEN enrich_phone(tags["name"], Get(tags, "addr:city", ""))
  ELSE TagPhone(tags)

\* one iteration of the loop of process_leads on node n, the i-th of the
\* batch.  at: how the iteration ends ("raise": an exception leaves the
\* function); call: whether enrich_phone was called.  The lead carries the
\* index i of its node in the field src, which the program does not have.
Visit(n, i, bl, lookback_days, t_now) ==
  LET tags == Get(n, "tags", EmptyDict)
      skip == [at |-> "skip", call |-> FALSE, lead |-> <<>>]
  IN  IF ~("name" \in DOMAIN tags /\ tags["name"] # <<>>) THEN skip
      ELSE IF Blacklisted(tags["name"], bl) THEN skip
      ELSE IF ~TryOk(n) THEN [skip EXCEPT !.at = ExceptClause]
      ELSE IF TooOld(DaysOf(n, t_now), lookback_days) THEN skip
      ELSE IF has_live_website(tags["name"]) THEN skip
      ELSE IF ~Truthy(Phone(tags))
           THEN [at |-> "skip", call |-> CallsEnricher(tags), lead |-> <<>>]
      ELSE [at |-> "lead", call |-> CallsEnricher(tags),
            lead |-> [Name |-> tags["name"],
                      Contact |-> Phone(tags),
                      Address |-> assemble_address(tags),
                      Days |-> DaysOf(n, t_now),
                      Score |-> Score(DaysOf(n, t_now), lookback_days,
                                      assemble_address(tags)),
                      lat |-> Get(n, "lat", None),
                      lon |-> Get(n, "lon", None),
                      src |-> i]]

\* an insertion that puts x before the leads of equal score
RECURSIVE InsertBeforeEqual(_, _)
InsertBeforeEqual(sorted, x) ==
  IF sorted = <<>> THEN <<x>>
  ELSE IF Head(sorted).Score > x.Score
       THEN <<Head(sorted)>> \o InsertBeforeEqual(Tail(sorted), x)
       ELSE <<x>> \o sorted

\* sorted(leads, key=Score, reverse=True): x goes after every lead whose
\* score is at least its own
RECURSIVE Insert(_, _)
Insert(sorted, x) ==
  IF sorted = <<>> THEN <<x>>
  ELSE IF Head(sorted).Score >= x.Score
       THEN <<Head(sorted)>> \o Insert(Tail(sorted), x)
       ELSE <<x>> \o sorted

RECURSIVE Sorted(_)
Sorted(ls) ==
  IF ls = <<>> THEN <<>>
  ELSE Insert(Sorted(SubSeq(ls, 1, Len(ls) - 1)), ls[Len(ls)])

\* the loop of process_leads from node i on; acc is what it has so far
RECURSIVE Loop(_, _, _, _, _, _)
Loop(ns, i, bl, lookback_days, t_now, acc) ==
  IF i > Len(ns) THEN acc
  ELSE LET v == Visit(ns[i], i, bl, lookback_days, t_now)
           calls == IF v.call
                    THEN Append(acc.calls,
                                [name |-> ns[i]["tags"]["name"],
                                 city |-> ns[i]["tags"]["addr:city"],
                                 src |-> i])
                    ELSE acc.calls
       IN  IF v.at = "raise"
           THEN [leads |-> <<>>, calls |-> calls, raised |-> TRUE]
           ELSE Loop(ns, i + 1, bl, lookback_days, t_now,
                     [leads |-> IF v.at = "lead" THEN Append(acc.leads, v.lead)
                                ELSE acc.leads,
                      calls |-> calls, raised |-> FALSE])

\* process_leads(nodes, blacklist, lookback_days) run at the instant t_now
process_leads(ns, bl, lookback_days, t_now) ==
  LET r == Loop(ns, 1, bl, lookback_days, t_now,
                [leads |-> <<>>, calls |-> <<>>, raised |-> FALSE])
  IN  [leads |-> Sorted(r.leads), calls |-> r.calls, raised |-> r.raised]

(* ------------------------------ inputs --------------------------------- *)
\* the instant at the start: a timestamp of 0 is then older than every
\* lookback explored
Start == (MaxLookback + 1) * UnitsPerDay

\* time is followed for one day
End == Start + UnitsPerDay

\* a timestamp later than every instant of a call
Future == End + 1

\* instants of timestamps: whole days before the start, from none to more
\* than every window, and a later one
Instants == { Start - k * UnitsPerDay : k \in 0..(MaxLookback + 1) } \cup {Future}

Aware(t) == [kind |-> "aware", t |-> t]
Naive(t) == [kind |-> "naive", t |-> t]
Text == [kind |-> "text", t |-> 0]

NameAb == <<"A", "b">>
NameBc == <<"b", "c">>
NameC == <<"C">>

\* an Overpass element with the given tags and timestamp
Node(tags, ts) ==
  ("tags" :> tags) @@ ("timestamp" :> ts) @@ ("lat" :> "32.7") @@ ("lon" :> "-117.1")

\* tags with a name and a phone
Plain(name) == ("name" :> name) @@ ("phone" :> "555-0199")

FullAddress ==
  ("addr:housenumber" :> "1") @@ ("addr:street" :> "Main St") @@
  ("addr:city" :> "Reno") @@ ("addr:state" :> "NV") @@ ("addr:postcode" :> "89501")

\* nodes that differ in their timestamp, with and without an address
TimeNodes ==
  { Node(Plain(NameBc), Aware(t)) : t \in Instants }
  \cup { Node(Plain(NameBc) @@ FullAddress, Aware(t)) : t \in {Start - UnitsPerDay, Future} }

\* nodes that differ in their name
NameNodes ==
  { Node(Plain(nm), Aware(Start)) : nm \in {NameAb, NameBc, NameC, <<>>} }
  \cup { Node("phone" :> "555-0199", Aware(Start)) }

\* malformed nodes, and a well-formed one
MalformedNodes ==
  { Node(Plain(NameBc), ts) : ts \in {Text, Naive(Start), Aware(Start)} }
  \cup { ("tags" :> Plain(NameBc)) @@ ("lat" :> "32.7") @@ ("lon" :> "-117.1"),
         ("timestamp" :> Aware(Start)) @@ ("lat" :> "32.7") @@ ("lon" :> "-117.1") }

\* nodes that differ in their contact tags and their city: without a
\* phone tag in no city, in a city where YellowPages lists the name and in
\* one where it does not; with a phone tag in a listed city
ContactNodes ==
  { Node(("name" :> NameBc) @@ c @@ a, Aware(Start)) :
      c \in { EmptyDict, "email" :> "bc@example.org" },
      a \in { EmptyDict, "addr:city" :> "Reno", "addr:city" :> "Elko" } }
  \cup
  { Node(("name" :> NameBc) @@ c @@ ("addr:city" :> "Reno"), Aware(Start)) :
      c \in { ("phone" :> "555-0199") @@ ("email" :> "bc@example.org"),
              ("phone" :> "") @@ ("contact:phone" :> "555-0123") } }

AddressTags ==
  { EmptyDict,
    "addr:street" :> "Main St",
    ("addr:housenumber" :> "1") @@ ("addr:street" :> "Main St"),
    ("addr:housenumber" :> "") @@ ("addr:state" :> "NV"),
    FullAddress }

\* nodes that differ in their address sub-fields
AddressNodes ==
  { Node(Plain(NameBc) @@ a, Aware(Start - UnitsPerDay)) : a \in AddressTags }

SeqsUpTo(S, n) == UNION { [1..k -> S] : k \in 0..n }

\* the answers of the Overpass service
Batches ==
  SeqsUpTo(TimeNodes, MaxBatch) \cup SeqsUpTo(NameNodes, MaxBatch)
  \cup SeqsUpTo(MalformedNodes, MaxBatch) \cup SeqsUpTo(ContactNodes, MaxBatch)
  \cup SeqsUpTo(AddressNodes, MaxBatch)

\* texts of the "Blacklist Chains" box, as their lines
BTexts ==
  { <<>>,
    << <<" ", "A", "b", " ">>, <<" ">>, <<"C">> >> }

\* exclusion lists a caller of process_leads may pass
RawLists ==
  { << <<"A", "b">> >>,
    << <<"a", "b">> >>,
    << <<"C">>, <<"b">> >> }

\* texts of the niche box, as their lines
NicheTexts ==
  { <<>>,
    << [eq |-> FALSE, key |-> "", val |-> ""],
       [eq |-> TRUE, key |-> "amenity", val |-> "cafe|bar"],
       [eq |-> TRUE, key |-> "shop", val |-> "fitness"] >> }

\* positions of the "Look back (days)" slider that are explored: its
\* lowest, and the largest within the bound
Lookbacks == {1, IF MaxLookback < MAX_LOOKBACK THEN MaxLookback ELSE MAX_LOOKBACK}

NoPrev == [set |-> FALSE, leads |-> <<>>]

(* --------------------------- state machine ----------------------------- *)
Init ==
  /\ pc = "lookup"
  /\ now = Start
  /\ geo = NoGeo
  /\ lookback = 1
  /\ blacklist = <<>>
  /\ tags_to_query = <<>>
  /\ query = <<>>
  /\ nodes = <<>>
  /\ leads = <<>>
  /\ enrich_calls = <<>>
  /\ raised = FALSE
  /\ prev = NoPrev

\* lines 167-178: "Lookup ZIP"; without a location the script stops
LookupZip(zip_code) ==
  /\ pc = "lookup"
  /\ LET loc == geocode_zip(zip_code)
     IN  IF loc.found
         THEN geo' = loc /\ pc' = "sidebar"
         ELSE UNCHANGED <<geo, pc>>
  /\ UNCHANGED <<now, lookback, blacklist, tags_to_query, query, nodes,
                 leads, enrich_calls, raised, prev>>

\* lines 180-191: a run of the script reads the widgets
Sidebar(lb, b_text, niche_text) ==
  /\ pc = "sidebar"
  /\ lookback' = lb
  /\ blacklist' = Blacklist(b_text)
  /\ tags_to_query' = NichePairs(niche_text)
  /\ pc' = "fetch"
  /\ UNCHANGED <<now, geo, query, nodes, leads, enrich_calls, raised, prev>>

\* a widget is changed: the script starts again from its first line, and
\* nothing of the last run is left but the session state
Restart ==
  /\ pc \in {"display", "returned"}
  /\ pc' = "sidebar"
  /\ lookback' = 1
  /\ blacklist' = <<>>
  /\ tags_to_query' = <<>>
  /\ query' = <<>>
  /\ nodes' = <<>>
  /\ leads' = <<>>
  /\ enrich_calls' = <<>>
  /\ raised' = FALSE
  /\ prev' = NoPrev
  /\ UNCHANGED <<now, geo>>

\* lines 196-198 and 49-72: the query is built and posted; elements is
\* the answer
FetchOsmNodes(elements) ==
  /\ pc = "fetch"
  /\ query' = Clauses(geo.bbox, tags_to_query)
  /\ nodes' = elements
  /\ pc' = "process"
  /\ UNCHANGED <<now, geo, lookback, blacklist, tags_to_query,
                 leads, enrich_calls, raised, prev>>

\* line 200: leads = process_leads(nodes, blacklist, lookback)
ProcessLeads ==
  /\ pc = "process"
  /\ LET r == process_leads(nodes, blacklist, lookback, now)
     IN  /\ leads' = r.leads
         /\ enrich_calls' = r.calls
         /\ raised' = r.raised
  /\ pc' = "display"
  /\ UNCHANGED <<now, geo, lookback, blacklist, tags_to_query, query, nodes, prev>>

\* lines 193-194: "Fetch Leads" reruns the script with the same widget
\* values; the fetch is answered from the cache
Rerun ==
  /\ pc = "display"
  /\ prev' = [set |-> TRUE, leads |-> leads]
  /\ pc' = "process"
  /\ UNCHANGED <<now, geo, lookback, blacklist, tags_to_query, query, nodes,
                 leads, enrich_calls, raised>>

\* process_leads applied to arguments of a caller's choice
CallProcessLeads(ns, bl, lb) ==
  /\ pc = "sidebar"
  /\ nodes' = ns
  /\ blacklist' = bl
  /\ lookback' = lb
  /\ LET r == process_leads(ns, bl, lb, now)
     IN  /\ leads' = r.leads
         /\ enrich_calls' = r.calls
         /\ raised' = r.raised
  /\ prev' = NoPrev
  /\ pc' = "returned"
  /\ UNCHANGED <<now, geo, tags_to_query, query>>

\* time passes; only the instant of a call of process_leads matters, so
\* it passes just before one
Tick ==
  /\ pc \in {"sidebar", "process"}
  /\ now < End
  /\ now' = now + 1
  /\ UNCHANGED <<pc, geo, lookback, blacklist, tags_to_query, query, nodes,
                 leads, enrich_calls, raised, prev>>

Next ==
  \/ \E z \in ZipCodes : LookupZip(z)
  \/ \E lb \in Lookbacks, b \in BTexts, t \in NicheTexts : Sidebar(lb, b, t)
  \/ Restart
  \/ \E e \in Batches : FetchOsmNodes(e)
  \/ ProcessLeads
  \/ Rerun
  \/ \E ns \in SeqsUpTo(NameNodes, MaxBatch), bl \in RawLists, lb \in Lookbacks :
        CallProcessLeads(ns, bl, lb)
  \/ Tick

Spec == Init /\ [][Next]_vars

(* ------------------------------ claims --------------------------------- *)
\* process_leads has returned: leads, enrich_calls and raised are its
\* result, and now is the instant it read
Done == pc \in {"display", "returned"}

\* the query of the last fetch is the one built from tags_to_query
Fetched == pc = "process"

Tags(i) == Get(nodes[i], "tags", EmptyDict)

HasName(i) == "name" \in DOMAIN Tags(i) /\ Tags(i)["name"] # <<>>

HasInstant(i) == "timestamp" \in DOMAIN nodes[i] /\ nodes[i]["timestamp"].kind = "aware"

\* the leads made from node i
LeadsOf(i) == { k \in 1..Len(leads) : leads[k].src = i }

\* whole days in delta time units, truncated toward zero
TruncDays(delta) ==
  IF delta >= 0 THEN delta \div UnitsPerDay ELSE -((-delta) \div UnitsPerDay)

\* node i alone, with no exclusion list and read at instant t, gives a lead
LeadAlone(i, t) == process_leads(<<nodes[i]>>, <<>>, lookback, t).leads # <<>>

\* C1: no lead is produced for a record whose age, in whole days truncated,
\* is more than lookback_days at the evaluation instant
C1_NoLeadBeyondWindow ==
  Done => \A i \in 1..Len(nodes) :
            (HasInstant(i) /\ TruncDays(now - nodes[i]["timestamp"].t) > lookback)
               => LeadsOf(i) = {}

\* a record that is a lead when read at its own timestamp is too old now,
\* next to a record that is a lead
C1_Witness ==
  /\ Done
  /\ leads # <<>>
  /\ \E i \in 1..Len(nodes) :
        /\ HasInstant(i)
        /\ TruncDays(now - nodes[i]["timestamp"].t) > lookback
        /\ LeadAlone(i, nodes[i]["timestamp"].t)
        /\ ~Blacklisted(Tags(i)["name"], blacklist)

C3_ScoreInRange ==
  Done => \A k \in 1..Len(leads) : leads[k].Score \in 0..100

\* a lead with an address whose timestamp is later than the evaluation
\* instant: 70 * freshness + 30 is more than 100
C3_Witness ==
  /\ Done
  /\ \E k \in 1..Len(leads) :
        /\ nodes[leads[k].src]["timestamp"].t > now
        /\ leads[k].Address # <<>>
        /\ leads[k].Score = 100

\* C4: the returned list is in non-increasing order of score, and leads of
\* equal score are in the order of their records in the batch
C4_StableDescending ==
  Done => \A j, k \in 1..Len(leads) :
            j < k => /\ leads[j].Score >= leads[k].Score
                     /\ leads[j].Score = leads[k].Score => leads[j].src < leads[k].src

\* two leads of equal score
C4_Witness ==
  /\ Done
  /\ \E j, k \in 1..Len(leads) : j < k /\ leads[j].Score = leads[k].Score

\* two leads that the sort has exchanged
C4_Reordered ==
  /\ Done
  /\ \E j, k \in 1..Len(leads) : j < k /\ leads[j].src > leads[k].src

\* a lead as the program has it, without the index of its node
Program(l) == [Name |-> l.Name, Contact |-> l.Contact, Address |-> l.Address,
               Days |-> l.Days, Score |-> l.Score, lat |-> l.lat, lon |-> l.lon]

ProgramLeads(ls) == [k \in 1..Len(ls) |-> Program(ls[k])]

\* the batch without its i-th node
Without(ns, i) == SubSeq(ns, 1, i - 1) \o SubSeq(ns, i + 1, Len(ns))

\* node i has no tags, no name or an empty one, no timestamp, or a
\* timestamp that is unparsable text
Malformed(i) ==
  \/ "tags" \notin DOMAIN nodes[i]
  \/ ~HasName(i)
  \/ "timestamp" \notin DOMAIN nodes[i]
  \/ nodes[i]["timestamp"].kind = "text"

\* C5: a malformed record never aborts process_leads, and the leads returned
\* are those returned for the batch without the malformed record
C5_MalformedSkipped ==
  Done => \A i \in 1..Len(nodes) :
            Malformed(i) =>
              /\ ~raised
              /\ ProgramLeads(leads) =
                   ProgramLeads(process_leads(Without(nodes, i), blacklist,
                                              lookback, now).leads)

\* a batch with a record whose timestamp is missing or unparsable, which
\* reaches the try block, and a lead from another record
C5_Witness ==
  /\ Done
  /\ leads # <<>>
  /\ \E i \in 1..Len(nodes) :
        /\ HasName(i)
        /\ ~Blacklisted(Tags(i)["name"], blacklist)
        /\ \/ "timestamp" \notin DOMAIN nodes[i]
           \/ nodes[i]["timestamp"].kind = "text"

\* C6 as claimed: two invocations of process_leads with the same batch,
\* exclusion list and window return the same list
C6_SameArgumentsSameLeads ==
  (Done /\ prev.set) => leads = prev.leads

\* node i reaches the contact resolution of lines 138-143
ReachesContact(i) ==
  /\ HasName(i)
  /\ ~Blacklisted(Tags(i)["name"], blacklist)
  /\ HasInstant(i)
  /\ ~TooOld(DaysOf(nodes[i], now), lookback)
  /\ ~has_live_website(Tags(i)["name"])

\* the explicit contact attributes of node i
ExplicitContacts(i) ==
  { v \in { Get(Tags(i), "phone", None), Get(Tags(i), "contact:phone", None),
            Get(Tags(i), "email", None) } : Truthy(v) }

\* the calls of enrich_phone made for node i
CallsFor(i) == { k \in 1..Len(enrich_calls) : enrich_calls[k].src = i }

\* C7 as claimed: a record with an explicit phone or email attribute becomes
\* a lead with that contact and the enricher is not called for it; the
\* enricher is called, with the name and city, only for records without an
\* explicit contact; a record is discarded exactly when neither yields one
C7_ContactResolution ==
  Done => \A i \in 1..Len(nodes) :
            ReachesContact(i) =>
              /\ ExplicitContacts(i) # {} =>
                   /\ \E k \in LeadsOf(i) : leads[k].Contact \in ExplicitContacts(i)
                   /\ CallsFor(i) = {}
              /\ \A k \in CallsFor(i) :
                   /\ ExplicitContacts(i) = {}
                   /\ enrich_calls[k].name = Tags(i)["name"]
                   /\ enrich_calls[k].city = Get(Tags(i), "addr:city", "")
              /\ LeadsOf(i) = {} <=>
                   /\ ExplicitContacts(i) = {}
                   /\ ~Truthy(enrich_phone(Tags(i)["name"], Get(Tags(i), "addr:city", "")))

\* C8 as claimed: the clauses are the filter clauses for a non-empty filter
\* list and the four catch-all clauses for an empty one
C8_CatchAllOnlyWhenEmpty ==
  Fetched =>
    /\ query # <<>>
    /\ IF tags_to_query = <<>>
       THEN [k \in 1..Len(query) |-> query[k].key] = CatchAllKeys
       ELSE /\ Len(query) = Len(tags_to_query)
            /\ \A k \in 1..Len(query) :
                  <<query[k].key, query[k].pattern>> = tags_to_query[k]

\* C8 amended: the query has one clause per (key, pattern) pair, in list
\* order, followed by the four catch-all clauses shop, amenity, office,
\* leisure, whether or not filters are supplied; it is never empty
C8_CatchAllAlways ==
  Fetched =>
    /\ query # <<>>
    /\ Len(query) = Len(tags_to_query) + 4
    /\ \A k \in 1..Len(tags_to_query) :
          <<query[k].key, query[k].pattern>> = tags_to_query[k]
    /\ \A k \in 1..4 :
          /\ query[Len(tags_to_query) + k].key = <<"shop", "amenity", "office", "leisure">>[k]
          /\ query[Len(tags_to_query) + k].pattern = NoPattern
    /\ \A k \in 1..Len(query) :
          query[k].area = <<geo.bbox[1], geo.bbox[3], geo.bbox[2], geo.bbox[4]>>

\* a query built from two filters
C8_Witness ==
  /\ Fetched
  /\ Len(tags_to_query) >= 2
  /\ Len(query) = 6

\* C9 as claimed: every lead's 'Days Since Listed' is a non-negative integer
\* not greater than lookback_days
C9_DaysInWindow ==
  Done => \A k \in 1..Len(leads) : leads[k].Days \in 0..lookback

\* round(min(100, num/den)) for a non-negative fraction, ties to even
RoundClamped(num, den) ==
  IF num >= 100 * den THEN 100
  ELSE LET q == num \div den
           r == num % den
       IN  IF 2 * r < den \/ (2 * r = den /\ q % 2 = 0) THEN q ELSE q + 1

\* C10 as claimed: the score is round(min(100, 70 * freshness + 30 * k/5)),
\* k the number of address sub-fields present
C10_FractionOfFive ==
  Done => \A j \in 1..Len(leads) :
            leads[j].Score =
              RoundClamped((lookback - leads[j].Days) * 70 * 5
                             + 30 * Len(leads[j].Address) * lookback,
                           5 * lookback)

\* C10 amended: the completeness component is 1 when at least one of the
\* five address sub-fields is present and 0 when none is, the score is
\* round(min(100, freshness * 70 + completeness * 30)), and two records of
\* equal age with one or more sub-fields present have the same score
C10_AnyOfFive ==
  Done =>
    /\ \A j \in 1..Len(leads) :
          leads[j].Score =
            RoundClamped((lookback - leads[j].Days) * 70
                           + (IF Len(leads[j].Address) >= 1 THEN 30 * lookback ELSE 0),
                         lookback)
    /\ \A j, k \in 1..Len(leads) :
          (/\ leads[j].Days = leads[k].Days
           /\ leads[j].Address # <<>>
           /\ leads[k].Address # <<>>) => leads[j].Score = leads[k].Score

\* two leads of equal age, one with a single sub-field and one with all
\* five, below the clamp
C10_Witness ==
  /\ Done
  /\ \E j, k \in 1..Len(leads) :
        /\ leads[j].Days = leads[k].Days
        /\ Len(leads[j].Address) = 1
        /\ Len(leads[k].Address) = 5
        /\ leads[j].Score = leads[k].Score
        /\ leads[j].Score < 100

====
